---- MODULE Spec2Model ----
(***************************************************************************)
(* Natural-language-to-SQL pipeline of the school database assistant:      *)
(* the query generator and its fallback ladder, the query validator, the   *)
(* conversation memory and the per-question orchestration.                 *)
(*                                                                         *)
(* Texts are sequences of one-character strings, so that substring,        *)
(* prefix, case and comment handling are computed character by character.  *)
(* Confidence scores are kept in tenths (0.7 is 7).                        *)
(***************************************************************************)
EXTENDS Integers, Sequences, FiniteSets, TLC

VARIABLES
    question,        \* the question handed to process_question / generate_sql
    llm,             \* outcome of the SQL chain's model call for this question
    sql_result,      \* what generate_sql produced: a value or a raised error
    valid,           \* what validate_sql returned, "unset" before it ran
    pc,              \* position inside process_question
    conversations,   \* ConversationMemory.conversations: session id -> exchange log
    current_session, \* ConversationMemory.current_session
    clock,           \* the wall clock read by datetime.now(), as a tick count
    call,            \* the memory operation called last, with its arguments
    ret,             \* what that operation returned
    session_id,      \* st.session_state.session_id
    conversation_history, \* st.session_state.conversation_history
    executed,        \* the SQL texts handed to execute_query by the running request
    query_results,   \* query_results of the running request
    context,         \* context of the running request
    response,        \* response of the running request
    retval,          \* what process_question returned last
    asked,           \* number of questions processed so far
    prompt,          \* the fields generate_response filled its prompt with
    reply,           \* outcome of the response model's invocation
    steps,           \* the component calls the running request has made, in order
    show_technical,  \* st.session_state.show_technical
    displayed        \* what the last script run wrote to the chat area

sqlVars == <<question, llm, sql_result, valid>>
memVars == <<conversations, current_session, clock>>
callVars == <<call, ret>>
uiVars == <<session_id, conversation_history>>
reqVars == <<executed, query_results, context, response, retval, asked>>
respVars == <<prompt, reply>>
viewVars == <<show_technical, displayed>>

vars == <<sqlVars, pc, memVars, callVars, uiVars, reqVars, respVars, steps, viewVars>>

----------------------------------------------------------------------------
(* Characters and text helpers (Python str semantics on ASCII text).       *)

Lowers == <<"a","b","c","d","e","f","g","h","i","j","k","l","m","n","o","p","q","r","s","t","u","v","w","x","y","z">>
Uppers == <<"A","B","C","D","E","F","G","H","I","J","K","L","M","N","O","P","Q","R","S","T","U","V","W","X","Y","Z">>

Whitespace == {" ", "\n", "\t"}

IndexIn(c, letters) == CHOOSE i \in 1..Len(letters) : letters[i] = c

ToUpper == [c \in {Lowers[i] : i \in 1..Len(Lowers)} |-> Uppers[IndexIn(c, Lowers)]]
ToLower == [c \in {Uppers[i] : i \in 1..Len(Uppers)} |-> Lowers[IndexIn(c, Uppers)]]

UpperChar(c) == IF c \in DOMAIN ToUpper THEN ToUpper[c] ELSE c

LowerChar(c) == IF c \in DOMAIN ToLower THEN ToLower[c] ELSE c

\* str.upper()
upper(s) == [i \in 1..Len(s) |-> UpperChar(s[i])]

\* str.lower()
lower(s) == [i \in 1..Len(s) |-> LowerChar(s[i])]

\* str.strip(): drop leading and trailing whitespace
RECURSIVE lstrip(_)
lstrip(s) ==
    IF s # <<>> /\ Head(s) \in Whitespace THEN lstrip(Tail(s)) ELSE s

RECURSIVE rstrip(_)
rstrip(s) ==
    IF s # <<>> /\ s[Len(s)] \in Whitespace THEN rstrip(SubSeq(s, 1, Len(s) - 1)) ELSE s

strip(s) == rstrip(lstrip(s))

\* Python's `sub in s`
Contains(s, sub) ==
    \E i \in 0..(Len(s) - Len(sub)) : SubSeq(s, i + 1, i + Len(sub)) = sub

\* str.startswith
startswith(s, prefix) ==
    Len(s) >= Len(prefix) /\ SubSeq(s, 1, Len(prefix)) = prefix

RECURSIVE Concat(_)
Concat(parts) ==
    IF parts = <<>> THEN <<>> ELSE Head(parts) \o Concat(Tail(parts))

----------------------------------------------------------------------------
(* SQLGenerator.validate_sql                                               *)

\* re.sub(r'--.*$', '', query, flags=re.MULTILINE): in every line, the
\* leftmost "--" starts a match that runs to the end of that line ('.' does
\* not match the newline, which is kept).
DashesAt(line, p) == p < Len(line) /\ line[p] = "-" /\ line[p + 1] = "-"

StripLine(line) ==
    IF \E p \in 1..Len(line) : DashesAt(line, p)
    THEN LET first == CHOOSE p \in 1..Len(line) :
                          DashesAt(line, p) /\ \A h \in 1..(p - 1) : ~DashesAt(line, h)
         IN SubSeq(line, 1, first - 1)
    ELSE line

RECURSIVE StripLines(_)
StripLines(text) ==
    IF \E n \in 1..Len(text) : text[n] = "\n"
    THEN LET n == CHOOSE n \in 1..Len(text) :
                      text[n] = "\n" /\ \A h \in 1..(n - 1) : text[h] # "\n"
         IN StripLine(SubSeq(text, 1, n - 1)) \o <<"\n">>
                \o StripLines(SubSeq(text, n + 1, Len(text)))
    ELSE StripLine(text)

StripComments(query) == StripLines(query)

clean_query(query) == upper(strip(StripComments(query)))

dangerous_keywords_short ==
    << <<"D","R","O","P">>, <<"D","E","L","E","T","E">>, <<"I","N","S","E","R","T">>, <<"A","L","T","E","R">>, <<"C","R","E","A","T","E">>, <<"T","R","U","N","C","A","T","E">> >>

dangerous_keywords ==
    << <<"D","R","O","P">>, <<"D","E","L","E","T","E">>, <<"U","P","D","A","T","E">>, <<"I","N","S","E","R","T">>, <<"A","L","T","E","R">>, <<"C","R","E","A","T","E">>, <<"T","R","U","N","C","A","T","E">> >>

\* for keyword in dangerous_keywords: if keyword in clean_query: return False
RECURSIVE KeywordLoop(_, _)
KeywordLoop(clean, k) ==
    IF k > Len(dangerous_keywords) THEN FALSE
    ELSE IF Contains(clean, dangerous_keywords[k]) THEN TRUE
    ELSE KeywordLoop(clean, k + 1)

validate_sql(query) ==
    LET clean == clean_query(query) IN
    IF KeywordLoop(clean, 1) THEN FALSE
    ELSE IF ~startswith(clean, <<"S","E","L","E","C","T">>) THEN FALSE
    ELSE TRUE

----------------------------------------------------------------------------
(* SQLQuery values and generate_sql outcomes.                              *)

\* SQLQuery(query, explanation, confidence): the value generate_sql returns
Return(q, e, c) ==
    [kind |-> "return", query |-> q, explanation |-> e, confidence |-> c, error |-> <<>>]

\* an exception leaving a call, named by its type
Raise(e) ==
    [kind |-> "raise", query |-> <<>>, explanation |-> <<>>, confidence |-> 0, error |-> e]

DefaultConfidence == 8
FallbackConfidence == 7
FailureConfidence == 0

DefaultQuery == <<"S","E","L","E","C","T"," ","*"," ","F","R","O","M"," ","c","l","a","s","s","e","s"," ","L","I","M","I","T"," ","1","0">>
DefaultExplanation == <<"G","e","n","e","r","a","t","e","d"," ","S","Q","L"," ","q","u","e","r","y">>

ClassesQuery == <<"S","E","L","E","C","T"," ","c","l","a","s","s","_","i","d",","," ","c","l","a","s","s","_","n","a","m","e"," ","F","R","O","M"," ","c","l","a","s","s","e","s"," ","L","I","M","I","T"," ","1","0","0">>
CountStudentsQuery == <<"S","E","L","E","C","T"," ","C","O","U","N","T","(","*",")"," ","a","s"," ","t","o","t","a","l","_","s","t","u","d","e","n","t","s"," ","F","R","O","M"," ","s","t","u","d","e","n","t","s">>
ListStudentsQuery == <<"S","E","L","E","C","T"," ","r","o","l","l","_","n","o",","," ","f","i","r","s","t","_","n","a","m","e",","," ","l","a","s","t","_","n","a","m","e",","," ","a","g","e"," ","F","R","O","M"," ","s","t","u","d","e","n","t","s"," ","L","I","M","I","T"," ","1","0","0">>
\* the error query worded with a verb of the validator's denylist
ErrorQuery_create == <<"S","E","L","E","C","T"," ","'","E","r","r","o","r",":"," ","C","o","u","l","d"," ","n","o","t"," ","c","r","e","a","t","e"," ","q","u","e","r","y","'"," ","a","s"," ","e","r","r","o","r","_","m","e","s","s","a","g","e">>
ErrorQuery == <<"S","E","L","E","C","T"," ","'","E","r","r","o","r",":"," ","C","o","u","l","d"," ","n","o","t"," ","g","e","n","e","r","a","t","e"," ","q","u","e","r","y","'"," ","a","s"," ","e","r","r","o","r","_","m","e","s","s","a","g","e">>

----------------------------------------------------------------------------
(* SQLGenerator.create_fallback_query                                      *)

create_fallback_query_or(q, error) ==
    LET question_lower == lower(q) IN
    IF Contains(question_lower, <<"c","l","a","s","s">>) \/ Contains(question_lower, <<"a","l","l">>)
    THEN Return(ClassesQuery, <<"S","h","o","w","i","n","g"," ","a","l","l"," ","c","l","a","s","s","e","s"," ","f","r","o","m"," ","t","h","e"," ","d","a","t","a","b","a","s","e">>, FallbackConfidence)
    ELSE IF Contains(question_lower, <<"s","t","u","d","e","n","t">>) \/ Contains(question_lower, <<"c","o","u","n","t">>)
    THEN Return(CountStudentsQuery, <<"C","o","u","n","t","i","n","g"," ","t","o","t","a","l"," ","n","u","m","b","e","r"," ","o","f"," ","s","t","u","d","e","n","t","s">>, FallbackConfidence)
    ELSE IF Contains(question_lower, <<"s","t","u","d","e","n","t">>) \/ Contains(question_lower, <<"a","l","l">>)
    THEN Return(ListStudentsQuery, <<"S","h","o","w","i","n","g"," ","a","l","l"," ","s","t","u","d","e","n","t","s"," ","i","n"," ","t","h","e"," ","d","a","t","a","b","a","s","e">>, FallbackConfidence)
    ELSE Return(ErrorQuery,
                Concat(<< <<"F","a","i","l","e","d"," ","t","o"," ","g","e","n","e","r","a","t","e"," ","q","u","e","r","y"," ","f","o","r",":"," ">>, q, <<"."," ","E","r","r","o","r",":"," ">>, error >>),
                FailureConfidence)

create_fallback_query_swapped(q, error) ==
    LET question_lower == lower(q) IN
    IF Contains(question_lower, <<"s","t","u","d","e","n","t">>) /\ Contains(question_lower, <<"c","o","u","n","t">>)
    THEN Return(CountStudentsQuery, <<"C","o","u","n","t","i","n","g"," ","t","o","t","a","l"," ","n","u","m","b","e","r"," ","o","f"," ","s","t","u","d","e","n","t","s">>, FallbackConfidence)
    ELSE IF Contains(question_lower, <<"c","l","a","s","s">>) /\ Contains(question_lower, <<"a","l","l">>)
    THEN Return(ClassesQuery, <<"S","h","o","w","i","n","g"," ","a","l","l"," ","c","l","a","s","s","e","s"," ","f","r","o","m"," ","t","h","e"," ","d","a","t","a","b","a","s","e">>, FallbackConfidence)
    ELSE IF Contains(question_lower, <<"s","t","u","d","e","n","t">>) /\ Contains(question_lower, <<"a","l","l">>)
    THEN Return(ListStudentsQuery, <<"S","h","o","w","i","n","g"," ","a","l","l"," ","s","t","u","d","e","n","t","s"," ","i","n"," ","t","h","e"," ","d","a","t","a","b","a","s","e">>, FallbackConfidence)
    ELSE Return(ErrorQuery,
                Concat(<< <<"F","a","i","l","e","d"," ","t","o"," ","g","e","n","e","r","a","t","e"," ","q","u","e","r","y"," ","f","o","r",":"," ">>, q, <<"."," ","E","r","r","o","r",":"," ">>, error >>),
                FailureConfidence)

create_fallback_query(q, error) ==
    LET question_lower == lower(q) IN
    IF Contains(question_lower, <<"c","l","a","s","s">>) /\ Contains(question_lower, <<"a","l","l">>)
    THEN Return(ClassesQuery, <<"S","h","o","w","i","n","g"," ","a","l","l"," ","c","l","a","s","s","e","s"," ","f","r","o","m"," ","t","h","e"," ","d","a","t","a","b","a","s","e">>, FallbackConfidence)
    ELSE IF Contains(question_lower, <<"s","t","u","d","e","n","t">>) /\ Contains(question_lower, <<"c","o","u","n","t">>)
    THEN Return(CountStudentsQuery, <<"C","o","u","n","t","i","n","g"," ","t","o","t","a","l"," ","n","u","m","b","e","r"," ","o","f"," ","s","t","u","d","e","n","t","s">>, FallbackConfidence)
    ELSE IF Contains(question_lower, <<"s","t","u","d","e","n","t">>) /\ Contains(question_lower, <<"a","l","l">>)
    THEN Return(ListStudentsQuery, <<"S","h","o","w","i","n","g"," ","a","l","l"," ","s","t","u","d","e","n","t","s"," ","i","n"," ","t","h","e"," ","d","a","t","a","b","a","s","e">>, FallbackConfidence)
    ELSE Return(ErrorQuery,
                Concat(<< <<"F","a","i","l","e","d"," ","t","o"," ","g","e","n","e","r","a","t","e"," ","q","u","e","r","y"," ","f","o","r",":"," ">>, q, <<"."," ","E","r","r","o","r",":"," ">>, error >>),
                FailureConfidence)

----------------------------------------------------------------------------
(* The model's reply and its JSON content.                                 *)
(* A reply is a sequence of tokens: the marker ```json, the marker ```,    *)
(* whitespace, free text, or the text of one JSON value.  A JSON value is  *)
(* kept as what json.loads makes of it.                                    *)

\* a field of a JSON object: absent, or a value by type; s holds a string's
\* characters and n a number in tenths
JAbsent == [t |-> "absent", s |-> <<>>, n |-> 0]
JNull == [t |-> "null", s |-> <<>>, n |-> 0]
JList == [t |-> "list", s |-> <<>>, n |-> 0]
JString(chars) == [t |-> "string", s |-> chars, n |-> 0]
JNumber(tenths) == [t |-> "number", s |-> <<>>, n |-> tenths]

\* a parsed JSON document: an object with its three fields of interest, or a
\* value of another type (whose fields are irrelevant)
JObject(q, e, c) == [t |-> "object", query |-> q, explanation |-> e, confidence |-> c]
JOther(type) == [t |-> type, query |-> JAbsent, explanation |-> JAbsent, confidence |-> JAbsent]

FenceJson == [k |-> "fence_json", v |-> JOther("none")]
Fence == [k |-> "fence", v |-> JOther("none")]
Space == [k |-> "ws", v |-> JOther("none")]
FreeText == [k |-> "text", v |-> JOther("none")]
JsonText(doc) == [k |-> "json", v |-> doc]

IsFence(tok) == tok.k \in {"fence", "fence_json"}

\* result.strip() on a reply
RECURSIVE lstripTokens(_)
lstripTokens(toks) ==
    IF toks # <<>> /\ Head(toks).k = "ws" THEN lstripTokens(Tail(toks)) ELSE toks

RECURSIVE rstripTokens(_)
rstripTokens(toks) ==
    IF toks # <<>> /\ toks[Len(toks)].k = "ws"
    THEN rstripTokens(SubSeq(toks, 1, Len(toks) - 1)) ELSE toks

stripTokens(toks) == rstripTokens(lstripTokens(toks))

HasToken(toks, kinds) == \E i \in 1..Len(toks) : toks[i].k \in kinds

\* text.split(marker)[1]: what follows the first occurrence of the marker
AfterFirst(toks, kinds) ==
    LET i == CHOOSE j \in 1..Len(toks) :
                 toks[j].k \in kinds /\ \A h \in 1..(j - 1) : toks[h].k \notin kinds
    IN SubSeq(toks, i + 1, Len(toks))

\* text.split("```")[0]: what precedes the first ``` (the marker ```json
\* begins with ``` too)
RECURSIVE BeforeFence(_)
BeforeFence(toks) ==
    IF toks = <<>> \/ IsFence(Head(toks)) THEN <<>>
    ELSE <<Head(toks)>> \o BeforeFence(Tail(toks))

\* lines 87-91: strip the reply and take the fenced part when there is one
cleaned_result(toks) ==
    LET cleaned == stripTokens(toks) IN
    IF HasToken(cleaned, {"fence_json"})
    THEN BeforeFence(AfterFirst(cleaned, {"fence_json"}))
    ELSE IF HasToken(cleaned, {"fence", "fence_json"})
    THEN BeforeFence(AfterFirst(cleaned, {"fence", "fence_json"}))
    ELSE cleaned

\* json.loads: one JSON value, whitespace around it allowed; anything else
\* raises JSONDecodeError
json_loads(toks) ==
    LET body == SelectSeq(toks, LAMBDA tok : tok.k # "ws") IN
    IF Len(body) = 1 /\ body[1].k = "json"
    THEN [ok |-> TRUE, doc |-> body[1].v]
    ELSE [ok |-> FALSE, doc |-> JOther("none")]

\* parsed.get(key, default) on a dict
Get(field, default) == IF field.t = "absent" THEN default ELSE field

Digits == <<"0","1","2","3","4","5","6","7","8","9">>
IsDigit(c) == \E i \in 1..Len(Digits) : Digits[i] = c
DigitValue(c) == IndexIn(c, Digits) - 1

\* float(x): a number converts; a string converts when it spells a number
\* (here: d.d, in tenths); None and lists raise TypeError, other strings
\* raise ValueError
float(x) ==
    IF x.t = "number" THEN [ok |-> TRUE, n |-> x.n]
    ELSE IF x.t = "string" /\ Len(x.s) = 3 /\ IsDigit(x.s[1]) /\ x.s[2] = "." /\ IsDigit(x.s[3])
    THEN [ok |-> TRUE, n |-> 10 * DigitValue(x.s[1]) + DigitValue(x.s[3])]
    ELSE [ok |-> FALSE, n |-> 0]

\* lines 93-98 with a confidence that does not convert replaced by the default
ParseAndBuild_lenient(toks) ==
    LET loaded == json_loads(cleaned_result(toks)) IN
    IF ~loaded.ok THEN Raise(<<"J","S","O","N","D","e","c","o","d","e","E","r","r","o","r">>)
    ELSE IF loaded.doc.t # "object" THEN Raise(<<"A","t","t","r","i","b","u","t","e","E","r","r","o","r">>)
    ELSE LET q == Get(loaded.doc.query, JString(DefaultQuery))
             e == Get(loaded.doc.explanation, JString(DefaultExplanation))
             c == float(Get(loaded.doc.confidence, JNumber(DefaultConfidence)))
         IN IF q.t # "string" \/ e.t # "string" THEN Raise(<<"V","a","l","i","d","a","t","i","o","n","E","r","r","o","r">>)
            ELSE Return(q.s, e.s, IF c.ok THEN c.n ELSE DefaultConfidence)

\* lines 93-98: json.loads, the three parsed.get calls, float() and the
\* SQLQuery constructor (query and explanation must be strings); any of them
\* may raise
ParseAndBuild(toks) ==
    LET loaded == json_loads(cleaned_result(toks)) IN
    IF ~loaded.ok THEN Raise(<<"J","S","O","N","D","e","c","o","d","e","E","r","r","o","r">>)
    ELSE IF loaded.doc.t # "object" THEN Raise(<<"A","t","t","r","i","b","u","t","e","E","r","r","o","r">>)
    ELSE LET q == Get(loaded.doc.query, JString(DefaultQuery))
             e == Get(loaded.doc.explanation, JString(DefaultExplanation))
             c == float(Get(loaded.doc.confidence, JNumber(DefaultConfidence)))
         IN IF ~c.ok THEN Raise(<<"V","a","l","u","e","E","r","r","o","r">>)
            ELSE IF q.t # "string" \/ e.t # "string" THEN Raise(<<"V","a","l","i","d","a","t","i","o","n","E","r","r","o","r">>)
            ELSE Return(q.s, e.s, c.n)

\* the inner try/except (lines 85-101) without its handler
ParseOrFallback_nocatch(q, toks) == ParseAndBuild(toks)

\* the inner try/except (lines 85-101): a bare except, fallback without error text
ParseOrFallback(q, toks) ==
    LET r == ParseAndBuild(toks) IN
    IF r.kind = "raise" THEN create_fallback_query(q, <<>>) ELSE r

\* SQLGenerator.generate_sql: the outer try/except around the model call
generate_sql(q, outcome) ==
    IF outcome.kind = "raise"
    THEN create_fallback_query(q, outcome.error)
    ELSE ParseOrFallback(q, outcome.tokens)

----------------------------------------------------------------------------
(* Inputs: questions, SQL texts and model replies, built from fragments.   *)

MaxQuestionFrags == 4
MaxSqlFrags == 3
MaxTokens == 3

SeqsUpTo(S, n) == UNION {[1..k -> S] : k \in 0..n}

HowManyStudents == <<"H","o","w"," ","m","a","n","y"," ","s","t","u","d","e","n","t","s"," ","a","r","e"," ","i","n"," ","t","h","e"," ","s","c","h","o","o","l","?">>

QuestionFrags ==
    { <<"c","l","a","s","s"," ">>, <<"A","L","L"," ">>, <<"S","t","u","d","e","n","t">>, <<"s"," ","c","o","u","n","t">> }

Questions ==
    {Concat(fs) : fs \in SeqsUpTo(QuestionFrags, MaxQuestionFrags)} \cup {HowManyStudents}

SqlFrags ==
    { <<"S","e","L","e","C","T"," ","a">>, <<" ">>, <<"\n">>, <<"-","-">>, <<"-">>, <<"D","r","o","p"," ","t">>, <<"u","p","d","a","t","e","_","c","o","u","n","t">> }

DeleteStudents == <<"D","E","L","E","T","E"," ","F","R","O","M"," ","s","t","u","d","e","n","t","s">>

SqlTexts ==
    {Concat(fs) : fs \in SeqsUpTo(SqlFrags, MaxSqlFrags)}
        \cup {DeleteStudents, DefaultQuery, ClassesQuery, CountStudentsQuery,
              ListStudentsQuery, ErrorQuery}

QueryFields == {JAbsent, JNull, JList, JString(CountStudentsQuery), JString(DeleteStudents)}
ExplanationFields == {JAbsent, JNull, JString(<<"c","o","u","n","t","s"," ","t","h","e"," ","s","t","u","d","e","n","t","s">>)}
ConfidenceFields ==
    {JAbsent, JNull, JList, JNumber(0), JNumber(9), JNumber(10), JNumber(15), JNumber(0 - 2),
     JString(<<"0",".","9">>), JString(<<"h","i","g","h">>)}

JsonObjects ==
    {JObject(q, e, c) : q \in QueryFields, e \in ExplanationFields, c \in ConfidenceFields}

JsonDocs == JsonObjects \cup {JOther("list"), JOther("string"), JOther("number"), JOther("null")}

SampleDoc == JObject(JString(CountStudentsQuery), JString(<<"c","o","u","n","t","s"," ","t","h","e"," ","s","t","u","d","e","n","t","s">>), JNumber(9))

\* replies: every arrangement of up to MaxTokens tokens around one document,
\* every document bare and fenced, and every SQL text as a document's query
TokenKinds == {"fence_json", "fence", "ws", "text", "json"}

TokenOf(kind, doc) ==
    CASE kind = "fence_json" -> FenceJson
      [] kind = "fence" -> Fence
      [] kind = "ws" -> Space
      [] kind = "text" -> FreeText
      [] kind = "json" -> JsonText(doc)

Replies ==
    {[i \in 1..Len(shape) |-> TokenOf(shape[i], SampleDoc)] :
        shape \in SeqsUpTo(TokenKinds, MaxTokens)}
    \cup {<<JsonText(doc)>> : doc \in JsonDocs}
    \cup {<<FenceJson, JsonText(doc), Fence>> : doc \in JsonDocs}
    \cup {<<JsonText(JObject(JString(t), JString(<<"a","s"," ","a","s","k","e","d">>), JNumber(9)))>> : t \in SqlTexts}

ModelRaises(e) == [kind |-> "raise", error |-> e, tokens |-> <<>>]
ModelReplies(toks) == [kind |-> "reply", error |-> <<>>, tokens |-> toks]

FailingOutcomes ==
    {ModelRaises(<<"q","u","o","t","a">>), ModelRaises(<<>>), ModelReplies(<<FreeText>>),
     ModelReplies(<<JsonText(JOther("list"))>>),
     ModelReplies(<<JsonText(JObject(JAbsent, JAbsent, JString(<<"h","i","g","h">>)))>>)}

NoOutcome == [kind |-> "none", error |-> <<>>, tokens |-> <<>>]
NoResult == [kind |-> "none", query |-> <<>>, explanation |-> <<>>, confidence |-> 0, error |-> <<>>]

\* the (question, model outcome) pairs the generator is run on
SqlInputs ==
    (Questions \X FailingOutcomes)
        \cup ({HowManyStudents, <<"c","o","u","n","t"," ","A","L","L"," ","S","t","u","d","e","n","t","s">>} \X {ModelReplies(r) : r \in Replies})

----------------------------------------------------------------------------
(* ConversationMemory                                                      *)

MaxExchanges == 4
MaxLimit == 5

SessionIds == {"s1", "s2"}
NoSession == "None"

ContextLimit == 5
ContextWindow == 3

\* query results and other values stored as an exchange's result: a
\* DataFrame of some rows, a dict acknowledgement, or a string
DataFrame(n) == [type |-> "DataFrame", rows |-> n, of |-> "DataFrame"]
Ack(n) == [type |-> "dict", rows |-> n, of |-> "dict"]
PlainStr == [type |-> "str", rows |-> 0, of |-> "text"]
NoResults == [type |-> "None", rows |-> 0, of |-> "None"]

\* str(value): the string spelling that value
str(value) == [type |-> "str", rows |-> value.rows, of |-> value.type]

\* lines 23-29: the exchange dict
Exchange(now, q, sql, result, explanation) ==
    [timestamp |-> now, question |-> q, sql_query |-> sql,
     result |-> IF result.type # "str" THEN str(result) ELSE result,
     explanation |-> explanation]

\* ConversationMemory.add_exchange, on the conversations mapping
add_exchange_reset(convs, sid, q, sql, result, explanation, now) ==
    (sid :> <<Exchange(now, q, sql, result, explanation)>>) @@ convs

\* add_exchange appending to every log instead of the addressed one
add_exchange_shared(convs, sid, q, sql, result, explanation, now) ==
    LET known == IF sid \notin DOMAIN convs THEN (sid :> <<>>) @@ convs ELSE convs
    IN [s \in DOMAIN known |-> Append(known[s], Exchange(now, q, sql, result, explanation))]

add_exchange(convs, sid, q, sql, result, explanation, now) ==
    LET known == IF sid \notin DOMAIN convs THEN (sid :> <<>>) @@ convs ELSE convs
    IN [known EXCEPT ![sid] = Append(@, Exchange(now, q, sql, result, explanation))]

\* Python's list[start:] for any integer start
SliceFrom(list, start) ==
    LET from == IF start < 0
                THEN (IF Len(list) + start < 0 THEN 0 ELSE Len(list) + start)
                ELSE (IF start > Len(list) THEN Len(list) ELSE start)
    IN SubSeq(list, from + 1, Len(list))

\* ConversationMemory.get_conversation_history
get_conversation_history(convs, sid, limit) ==
    IF sid \notin DOMAIN convs THEN <<>>
    ELSE SliceFrom(convs[sid], 0 - limit)

ContextHeader == <<"P","r","e","v","i","o","u","s"," ","c","o","n","v","e","r","s","a","t","i","o","n"," ","c","o","n","t","e","x","t",":","\n">>

\* lines 48-50: the loop over history[-3:]
RECURSIVE ContextLoop(_, _)
ContextLoop(text, exchanges) ==
    IF exchanges = <<>> THEN text
    ELSE ContextLoop(
            Concat(<< text, <<"Q",":"," ">>, Head(exchanges).question, <<"\n">>,
                      <<"A",":"," ">>, Head(exchanges).explanation, <<"\n","\n">> >>),
            Tail(exchanges))

get_context_for_question_oldest(convs, sid, current_question) ==
    LET history == get_conversation_history(convs, sid, ContextLimit) IN
    IF history = <<>> THEN <<>>
    ELSE ContextLoop(ContextHeader,
                     SubSeq(history, 1, IF Len(history) < ContextWindow
                                        THEN Len(history) ELSE ContextWindow))

\* ConversationMemory.get_context_for_question
get_context_for_question(convs, sid, current_question) ==
    LET history == get_conversation_history(convs, sid, ContextLimit) IN
    IF history = <<>> THEN <<>>
    ELSE ContextLoop(ContextHeader, SliceFrom(history, 0 - ContextWindow))

NoCall ==
    [op |-> "none", sid |-> NoSession, limit |-> 0, question |-> <<>>,
     sql_query |-> <<>>, result |-> NoResults, explanation |-> <<>>]
NoRet == [session |-> NoSession, history |-> <<>>, text |-> <<>>]

\* arguments the memory operations are called with
MemQuestions == { <<"q","1">>, <<"q","2">> }
MemArgs ==
    { << <<"q","1">>, <<"S","E","L","E","C","T"," ","1">>, DataFrame(1), <<"o","n","e">> >>,
      << <<"q","2">>, <<"S","E","L","E","C","T"," ","2">>, PlainStr, <<"t","w","o">> >> }

\* ConversationMemory.create_session: a fresh uuid4 becomes a new empty log
\* and the current session
CreateSession ==
    /\ \E sid \in SessionIds \ DOMAIN conversations :
        /\ conversations' = (sid :> <<>>) @@ conversations
        /\ current_session' = sid
        /\ call' = [NoCall EXCEPT !.op = "create_session"]
        /\ ret' = [NoRet EXCEPT !.session = sid]
    /\ UNCHANGED <<sqlVars, pc, clock, uiVars, reqVars, respVars, steps, viewVars>>

AddExchange ==
    /\ clock < MaxExchanges
    /\ \E sid \in SessionIds, a \in MemArgs :
        /\ conversations' = add_exchange(conversations, sid, a[1], a[2], a[3], a[4], clock)
        /\ call' = [op |-> "add_exchange", sid |-> sid, limit |-> 0, question |-> a[1],
                    sql_query |-> a[2], result |-> a[3], explanation |-> a[4]]
    /\ clock' = clock + 1
    /\ ret' = NoRet
    /\ UNCHANGED <<sqlVars, pc, current_session, uiVars, reqVars, respVars, steps, viewVars>>

GetConversationHistory ==
    /\ \E sid \in SessionIds, limit \in 0..MaxLimit :
        /\ call' = [NoCall EXCEPT !.op = "get_conversation_history",
                                  !.sid = sid, !.limit = limit]
        /\ ret' = [NoRet EXCEPT !.history = get_conversation_history(conversations, sid, limit)]
    /\ UNCHANGED <<sqlVars, pc, memVars, uiVars, reqVars, respVars, steps, viewVars>>

GetContextForQuestion ==
    /\ \E sid \in SessionIds, q \in MemQuestions :
        /\ call' = [NoCall EXCEPT !.op = "get_context_for_question",
                                  !.sid = sid, !.question = q]
        /\ ret' = [NoRet EXCEPT !.text = get_context_for_question(conversations, sid, q)]
    /\ UNCHANGED <<sqlVars, pc, memVars, uiVars, reqVars, respVars, steps, viewVars>>

NoReturn == [response |-> <<>>, error |-> FALSE, returned |-> FALSE]
NoPrompt == [question |-> <<>>, sql_query |-> <<>>, results |-> <<>>, context |-> <<>>]
NoReply == [kind |-> "none", content |-> <<>>]

\* ConversationMemory.__init__, nothing else running
InitMem ==
    /\ conversations = <<>>
    /\ current_session = NoSession
    /\ clock = 0
    /\ call = NoCall
    /\ ret = NoRet
    /\ question = <<>> /\ llm = NoOutcome /\ sql_result = NoResult /\ valid = "unset"
    /\ pc = "idle"
    /\ session_id = NoSession /\ conversation_history = <<>>
    /\ executed = <<>> /\ query_results = NoResults /\ context = <<>>
    /\ response = <<>> /\ retval = NoReturn /\ asked = 0
    /\ prompt = NoPrompt /\ reply = NoReply /\ steps = <<>>
    /\ show_technical = FALSE /\ displayed = <<>>

NextMem == CreateSession \/ AddExchange \/ GetConversationHistory \/ GetContextForQuestion

SpecMem == InitMem /\ [][NextMem]_vars

----------------------------------------------------------------------------
(* DatabaseManager.execute_query and ResponseGenerator.generate_response   *)

MaxQuestions == 2
PreviewRows == 10

\* decimal spelling of a number below 100
Decimal(n) ==
    IF n < 10 THEN <<Digits[n + 1]>>
    ELSE <<Digits[(n \div 10) + 1], Digits[(n % 10) + 1]>>

\* DataFrame.to_string(index=False) of the first n rows: the header line,
\* then one line per row
RECURSIVE RowLines(_, _)
RowLines(i, n) ==
    IF i > n THEN <<>>
    ELSE Concat(<< <<"\n","r","o","w"," ">>, Decimal(i), RowLines(i + 1, n) >>)

to_string(n) == <<"t","o","t","a","l">> \o RowLines(1, n)

\* str() of the acknowledgement dict of line 58
AckText(n) ==
    Concat(<< <<"{","'","m","e","s","s","a","g","e","'",":"," ","'","Q","u","e","r","y"," ","e","x","e","c","u","t","e","d"," ","s","u","c","c","e","s","s","f","u","l","l","y","'",","," ","'","r","o","w","c","o","u","n","t","'",":"," ">>, Decimal(n), <<"}">> >>)

\* the results as text with every row rendered, however many there are
results_text_all(results) ==
    IF results.type = "DataFrame"
    THEN IF results.rows = 0 THEN <<"N","o"," ","d","a","t","a"," ","f","o","u","n","d",".">>
         ELSE IF results.rows > PreviewRows
         THEN Concat(<< <<"F","o","u","n","d"," ">>, Decimal(results.rows),
                        <<" ","r","e","c","o","r","d","s","."," ","H","e","r","e"," ","a","r","e"," ","t","h","e"," ","f","i","r","s","t"," ","1","0",":","\n">>, to_string(results.rows) >>)
         ELSE to_string(results.rows)
    ELSE IF results.type = "dict" THEN AckText(results.rows)
    ELSE <<"N","o","n","e">>

\* lines 49-57 of generate_response: the results as text
results_text(results) ==
    IF results.type = "DataFrame"
    THEN IF results.rows = 0 THEN <<"N","o"," ","d","a","t","a"," ","f","o","u","n","d",".">>
         ELSE IF results.rows > PreviewRows
         THEN Concat(<< <<"F","o","u","n","d"," ">>, Decimal(results.rows),
                        <<" ","r","e","c","o","r","d","s","."," ","H","e","r","e"," ","a","r","e"," ","t","h","e"," ","f","i","r","s","t"," ","1","0",":","\n">>, to_string(PreviewRows) >>)
         ELSE to_string(results.rows)
    ELSE IF results.type = "dict" THEN AckText(results.rows)
    ELSE <<"N","o","n","e">>

\* lines 61-66: the fields the prompt is filled with
format_prompt(q, sql, results, ctx) ==
    [question |-> q, sql_query |-> sql, results |-> results_text(results), context |-> ctx]

\* what generate_response hands back: a text, or an exception
Answer(text) == [kind |-> "return", text |-> text, error |-> <<>>]
AnswerRaises(e) == [kind |-> "raise", text |-> <<>>, error |-> e]

ModelError == <<"R","e","s","o","u","r","c","e","E","x","h","a","u","s","t","e","d">>

\* generate_response without its except clause
generate_response_nocatch(q, sql, results, ctx, outcome) ==
    IF outcome.kind = "raise" THEN AnswerRaises(ModelError) ELSE Answer(outcome.content)

\* lines 59-72 of generate_response: the model's answer, or the template
generate_response(q, sql, results, ctx, outcome) ==
    IF outcome.kind = "raise"
    THEN Answer(Concat(<< <<"I"," ","f","o","u","n","d"," ","s","o","m","e"," ","r","e","s","u","l","t","s"," ","f","o","r"," ","y","o","u","r"," ","q","u","e","s","t","i","o","n"," ","'">>, q,
                          <<"'","."," ","H","e","r","e","'","s"," ","w","h","a","t"," ","I"," ","d","i","s","c","o","v","e","r","e","d",":"," ">>, results_text(results) >>))
    ELSE Answer(outcome.content)

DbRaises == [kind |-> "raise", value |-> NoResults]
DbReturns(v) == [kind |-> "return", value |-> v]

\* execute_query: SQLAlchemyError re-raised, rows as a DataFrame, or the
\* acknowledgement dict when the statement returns no rows
DbOutcomes == {DbRaises, DbReturns(DataFrame(0)), DbReturns(DataFrame(2))}

\* str(e) of the SQLAlchemyError execute_query re-raises
DbError == <<"S","Q","L","A","l","c","h","e","m","y","E","r","r","o","r">>

ResponseOutcomes ==
    {[kind |-> "raise", content |-> <<>>],
     [kind |-> "reply", content |-> <<"T","h","e","r","e"," ","a","r","e"," ","4","2"," ","s","t","u","d","e","n","t","s",".">>]}

RephraseUnsafe ==
    <<"I"," ","a","p","o","l","o","g","i","z","e",","," ","b","u","t"," ","I"," ","c","o","u","l","d","n","'","t"," ","g","e","n","e","r","a","t","e"," ","a"," ","s","a","f","e"," ","q","u","e","r","y"," ","f","o","r"," ","y","o","u","r"," ","q","u","e","s","t","i","o","n","."," ","C","o","u","l","d"," ","y","o","u"," ","p","l","e","a","s","e"," ","r","e","p","h","r","a","s","e"," ","i","t","?">>
ErrorResponse ==
    <<"I"," ","e","n","c","o","u","n","t","e","r","e","d"," ","a","n"," ","i","s","s","u","e"," ","w","h","i","l","e"," ","p","r","o","c","e","s","s","i","n","g"," ","y","o","u","r"," ","q","u","e","s","t","i","o","n","."," ","P","l","e","a","s","e"," ","t","r","y"," ","r","e","p","h","r","a","s","i","n","g"," ","i","t"," ","o","r"," ","a","s","k"," ","s","o","m","e","t","h","i","n","g"," ","e","l","s","e",".">>

Returned(text, isError) == [response |-> text, error |-> isError, returned |-> TRUE]

\* lines 430-438: the entry the exception handler appends
ErrorEntry(now, q, e) ==
    [timestamp |-> now, question |-> q, response |-> ErrorResponse,
     sql_query |-> <<"E","r","r","o","r",":"," ">> \o e, results |-> NoResults, confidence |-> 0, error |-> TRUE]

\* lines 411-419: the entry of an answered question
HistoryEntry(now, q, resp, sql, results, conf) ==
    [timestamp |-> now, question |-> q, response |-> resp,
     sql_query |-> sql, results |-> results, confidence |-> conf, error |-> FALSE]

\* "{confidence:.1f}" of a confidence kept in tenths
FormatTenths(c) ==
    IF c < 0 THEN <<"-">> \o Decimal((0 - c) \div 10) \o <<".">> \o Decimal((0 - c) % 10)
    ELSE Decimal(c \div 10) \o <<".">> \o Decimal(c % 10)

Shown(kind, text) == [kind |-> kind, text |-> text]

\* lines 489-496 of render_chat_message: the expander of technical details
TechnicalDetails(exchange) ==
    << Shown("expander", <<"T","e","c","h","n","i","c","a","l"," ","D","e","t","a","i","l","s"," ","(","C","o","n","f","i","d","e","n","c","e",":"," ">> \o FormatTenths(exchange.confidence) \o <<")">>),
       Shown("code", exchange.sql_query) >>
    \o (IF exchange.results.type = "DataFrame" /\ exchange.results.rows > 0
        THEN << Shown("dataframe", to_string(exchange.results.rows)) >>
        ELSE <<>>)

\* lines 445-496: one exchange on the page, in any of the three chat styles
render_chat_message(exchange, tech) ==
    << Shown("user", exchange.question), Shown("assistant", exchange.response) >>
    \o (IF tech THEN TechnicalDetails(exchange) ELSE <<>>)

\* lines 532-540 of render_chat_interface: the history, newest first
RECURSIVE RenderFrom(_, _, _)
RenderFrom(history, i, tech) ==
    IF i = 0 THEN <<>>
    ELSE render_chat_message(history[i], tech) \o RenderFrom(history, i - 1, tech)

render_chat_interface(history, tech) == RenderFrom(history, Len(history), tech)

\* the except branch without its append to conversation_history
Except_unrecorded(e) ==
    /\ conversation_history' = conversation_history
    /\ clock' = clock
    /\ retval' = Returned(ErrorResponse, TRUE)
    /\ displayed' = render_chat_interface(conversation_history', show_technical)
    /\ pc' = "done"

\* lines 426-443: the except branch of process_question; the caller of
\* process_question reruns the script, which renders the history again
Except(e) ==
    /\ conversation_history' = Append(conversation_history, ErrorEntry(clock, question, e))
    /\ clock' = clock + 1
    /\ retval' = Returned(ErrorResponse, TRUE)
    /\ displayed' = render_chat_interface(conversation_history', show_technical)
    /\ pc' = "done"

----------------------------------------------------------------------------
(* SchoolDatabaseApp.process_question, step by step                        *)

PipelineQuestions == {HowManyStudents, <<"s","h","o","w"," ","A","L","L"," ","c","l","a","s","s">>}

PipelineOutcomes ==
    {ModelRaises(<<"q","u","o","t","a">>),
     ModelReplies(<<JsonText(JObject(JString(DeleteStudents), JString(<<"r","e","m","o","v","e","s"," ","t","h","e","m">>), JNumber(9)))>>),
     ModelReplies(<<FenceJson, JsonText(SampleDoc), Fence>>)}

\* the component calls of the try block of process_question with the
\* context read moved to the front
Pipeline_context_first ==
    <<"context", "generate", "validate", "execute", "respond", "store", "append">>

\* lines 379-419: the statements of the try block in the order written
Pipeline ==
    <<"generate", "validate", "execute", "context", "respond", "store", "append">>

\* the statement that follows a statement which completed normally
After(step) ==
    LET i == CHOOSE j \in 1..Len(Pipeline) : Pipeline[j] = step
    IN IF i = Len(Pipeline) THEN "done" ELSE Pipeline[i + 1]

\* a question arrives (chat input or pending sidebar question)
Ask ==
    /\ pc \in {"idle", "done"}
    /\ asked < MaxQuestions
    /\ \E q \in PipelineQuestions, o \in PipelineOutcomes :
        question' = q /\ llm' = o
    /\ sql_result' = NoResult
    /\ valid' = "unset"
    /\ query_results' = NoResults /\ context' = <<>> /\ response' = <<>>
    /\ retval' = NoReturn
    /\ asked' = asked + 1
    /\ executed' = <<>>
    /\ prompt' = NoPrompt /\ reply' = NoReply
    /\ steps' = <<>>
    /\ pc' = Pipeline[1]
    /\ UNCHANGED <<memVars, callVars, uiVars, viewVars>>

\* line 379: sql_result = generate_sql(question)
GenerateSql ==
    /\ pc = "generate"
    /\ steps' = Append(steps, "generate")
    /\ sql_result' = generate_sql(question, llm)
    /\ IF sql_result'.kind = "raise"
       THEN Except(sql_result'.error) /\ UNCHANGED <<conversations, current_session, session_id>>
       ELSE pc' = After(pc) /\ UNCHANGED <<memVars, uiVars, retval, displayed>>
    /\ UNCHANGED <<question, llm, valid, callVars, executed, query_results, context,
                   response, asked, respVars, show_technical>>

\* the guard of lines 382-386 as written, and without its test
Rejected_never(ok) == FALSE
Rejected(ok) == ~ok

\* lines 382-386: a query validate_sql rejects returns the rephrase request,
\* which the caller only tests for truth before it reruns the script
ValidateSql ==
    /\ pc = "validate"
    /\ steps' = Append(steps, "validate")
    /\ LET ok == validate_sql(sql_result.query) IN
        /\ valid' = IF ok THEN "True" ELSE "False"
        /\ IF Rejected(ok)
           THEN /\ retval' = Returned(RephraseUnsafe, TRUE)
                /\ displayed' = render_chat_interface(conversation_history, show_technical)
                /\ pc' = "done"
           ELSE retval' = retval /\ displayed' = displayed /\ pc' = After(pc)
    /\ UNCHANGED <<question, llm, sql_result, memVars, callVars, uiVars, executed,
                   query_results, context, response, asked, respVars, show_technical>>

\* line 389: query_results = execute_query(sql_result.query)
ExecuteQuery ==
    /\ pc = "execute"
    /\ steps' = Append(steps, "execute")
    /\ executed' = Append(executed, sql_result.query)
    /\ \E db \in DbOutcomes :
        IF db.kind = "raise"
        THEN /\ Except(DbError)
             /\ UNCHANGED <<conversations, current_session, session_id, query_results>>
        ELSE /\ query_results' = db.value
             /\ pc' = After(pc)
             /\ UNCHANGED <<memVars, uiVars, retval, displayed>>
    /\ UNCHANGED <<sqlVars, callVars, context, response, asked, respVars, show_technical>>

\* lines 392-394: context = get_context_for_question(session_id, question)
GetContext ==
    /\ pc = "context"
    /\ steps' = Append(steps, "context")
    /\ context' = get_context_for_question(conversations, session_id, question)
    /\ pc' = After(pc)
    /\ UNCHANGED <<sqlVars, memVars, callVars, uiVars, executed, query_results,
                   response, retval, asked, respVars, viewVars>>

\* lines 397-399: response = generate_response(...)
GenerateResponse ==
    /\ pc = "respond"
    /\ steps' = Append(steps, "respond")
    /\ \E o \in ResponseOutcomes :
        LET r == generate_response(question, sql_result.query, query_results, context, o) IN
        /\ reply' = o
        /\ prompt' = format_prompt(question, sql_result.query, query_results, context)
        /\ IF r.kind = "raise"
           THEN /\ Except(r.error)
                /\ UNCHANGED <<conversations, current_session, session_id, response>>
           ELSE /\ response' = r.text
                /\ pc' = After(pc)
                /\ UNCHANGED <<memVars, uiVars, retval, displayed>>
    /\ UNCHANGED <<sqlVars, callVars, executed, query_results, context, asked,
                   show_technical>>

\* lines 402-408: memory.add_exchange(session_id, question, query, results, response)
StoreExchange ==
    /\ pc = "store"
    /\ steps' = Append(steps, "store")
    /\ conversations' = add_exchange(conversations, session_id, question,
                                     sql_result.query, query_results, response, clock)
    /\ clock' = clock + 1
    /\ pc' = After(pc)
    /\ UNCHANGED <<sqlVars, current_session, callVars, uiVars, reqVars, respVars, viewVars>>

\* lines 411-424: append to conversation_history and return the response;
\* the caller reruns the script, which renders the history again
AppendHistory ==
    /\ pc = "append"
    /\ conversation_history' =
           Append(conversation_history,
                  HistoryEntry(clock, question, response, sql_result.query,
                               query_results, sql_result.confidence))
    /\ clock' = clock + 1
    /\ retval' = Returned(response, FALSE)
    /\ displayed' = render_chat_interface(conversation_history', show_technical)
    /\ pc' = After(pc)
    /\ UNCHANGED <<sqlVars, conversations, current_session, callVars, session_id,
                   executed, query_results, context, response, asked, respVars,
                   steps, show_technical>>

\* the Clear History button without the new session of line 295
ClearHistory_same_session ==
    /\ pc \in {"idle", "done"}
    /\ conversation_history' = <<>>
    /\ displayed' = render_chat_interface(conversation_history', show_technical)
    /\ UNCHANGED <<sqlVars, pc, memVars, session_id, callVars, reqVars, respVars, steps,
                   show_technical>>

\* render_sidebar, lines 291-296: the Clear History button, then the rerun
ClearHistory ==
    /\ pc \in {"idle", "done"}
    /\ \E sid \in SessionIds \ DOMAIN conversations :
        /\ conversations' = (sid :> <<>>) @@ conversations
        /\ current_session' = sid
        /\ session_id' = sid
    /\ conversation_history' = <<>>
    /\ displayed' = render_chat_interface(conversation_history', show_technical)
    /\ UNCHANGED <<sqlVars, pc, clock, callVars, reqVars, respVars, steps, show_technical>>

\* render_sidebar, lines 276-277: the Show Technical Details toggle; the
\* script run it triggers renders the history with the new setting
ToggleTechnical ==
    /\ pc \in {"idle", "done"}
    /\ show_technical' = ~show_technical
    /\ displayed' = render_chat_interface(conversation_history, show_technical')
    /\ UNCHANGED <<sqlVars, pc, memVars, callVars, uiVars, reqVars, respVars, steps>>

\* initialize_components, lines 189-199
Init ==
    /\ \E sid \in SessionIds :
        conversations = (sid :> <<>>) /\ current_session = sid /\ session_id = sid
    /\ conversation_history = <<>>
    /\ clock = 0
    /\ call = NoCall /\ ret = NoRet
    /\ question = <<>> /\ llm = NoOutcome /\ sql_result = NoResult /\ valid = "unset"
    /\ pc = "idle"
    /\ executed = <<>> /\ query_results = NoResults /\ context = <<>>
    /\ response = <<>> /\ retval = NoReturn /\ asked = 0
    /\ prompt = NoPrompt /\ reply = NoReply /\ steps = <<>>
    /\ show_technical = FALSE /\ displayed = <<>>

Next ==
    \/ Ask
    \/ GenerateSql
    \/ ValidateSql
    \/ ExecuteQuery
    \/ GetContext
    \/ GenerateResponse
    \/ StoreExchange
    \/ AppendHistory
    \/ ClearHistory
    \/ ToggleTechnical

Spec == Init /\ [][Next]_vars

----------------------------------------------------------------------------
(* The generator and the validator run on their own, over all inputs.      *)

InitSql ==
    /\ \E in \in SqlInputs : question = in[1] /\ llm = in[2]
    /\ sql_result = NoResult
    /\ valid = "unset"
    /\ pc = "generate"
    /\ conversations = <<>> /\ current_session = NoSession /\ clock = 0
    /\ call = NoCall /\ ret = NoRet
    /\ session_id = NoSession /\ conversation_history = <<>>
    /\ executed = <<>> /\ query_results = NoResults /\ context = <<>>
    /\ response = <<>> /\ retval = NoReturn /\ asked = 0
    /\ prompt = NoPrompt /\ reply = NoReply /\ steps = <<>>
    /\ show_technical = FALSE /\ displayed = <<>>

NextSql == GenerateSql \/ ValidateSql

SpecSql == InitSql /\ [][NextSql]_vars

----------------------------------------------------------------------------
(* The response generator runs on its own, over results of every size.     *)

MaxRows == 12

\* what execute_query can hand over: rows as a DataFrame, or the
\* acknowledgement of a statement that returns no rows
ResultInputs == {DataFrame(n) : n \in 0..MaxRows} \cup {Ack(0), Ack(1)}

ContextInputs == {<<>>, ContextLoop(ContextHeader, <<Exchange(0, <<"q","1">>, <<"S","E","L","E","C","T"," ","1">>, PlainStr, <<"o","n","e">>)>>)}

InitResp ==
    /\ question \in PipelineQuestions
    /\ query_results \in ResultInputs
    /\ context \in ContextInputs
    /\ llm = NoOutcome
    /\ sql_result = Return(CountStudentsQuery, <<"c","o","u","n","t","s"," ","t","h","e"," ","s","t","u","d","e","n","t","s">>, 9)
    /\ valid = "True"
    /\ pc = "respond"
    /\ steps = <<"generate", "validate", "execute", "context">>
    /\ conversations = <<>> /\ current_session = NoSession /\ clock = 0
    /\ call = NoCall /\ ret = NoRet
    /\ session_id = NoSession /\ conversation_history = <<>>
    /\ executed = <<CountStudentsQuery>>
    /\ response = <<>> /\ retval = NoReturn /\ asked = 1
    /\ prompt = NoPrompt /\ reply = NoReply
    /\ show_technical = FALSE /\ displayed = <<>>

NextResp == GenerateResponse

SpecResp == InitResp /\ [][NextResp]_vars

----------------------------------------------------------------------------
(* Properties of the validator and the generator (checked under SpecSql).  *)

\* position i of q lies in a line comment: some "--" at or before it, with
\* no line break in between
InComment(q, i) ==
    \E j \in 1..i :
        /\ j < Len(q) /\ q[j] = "-" /\ q[j + 1] = "-"
        /\ \A k \in j..i : q[k] # "\n"

\* word occurs in q at position p, letter case ignored (word in upper
\* case), all of it outside comments
OccursAt(q, word, p) ==
    /\ p + Len(word) - 1 <= Len(q)
    /\ \A k \in 1..Len(word) :
        UpperChar(q[p + k - 1]) = word[k] /\ ~InComment(q, p + k - 1)

Denylist ==
    { <<"D","R","O","P">>, <<"D","E","L","E","T","E">>, <<"U","P","D","A","T","E">>, <<"I","N","S","E","R","T">>, <<"A","L","T","E","R">>, <<"C","R","E","A","T","E">>, <<"T","R","U","N","C","A","T","E">> }

\* a keyword occurs in what remains of q without its comments (a comment
\* runs to the end of its line, so what remains of a line is a prefix of it)
MentionsKeyword(q) ==
    \E word \in Denylist : \E p \in 1..Len(q) : OccursAt(q, word, p)

\* what remains of q begins, after leading whitespace, with SELECT
BeginsWithSelect(q) ==
    \E p \in 1..Len(q) :
        /\ OccursAt(q, <<"S","E","L","E","C","T">>, p)
        /\ \A h \in 1..(p - 1) : q[h] \in Whitespace \/ InComment(q, h)

\* C1: validate_sql returns false for every text that, comments removed and
\* upper-cased, contains one of the seven keywords as a substring, and for
\* every text whose trimmed remainder does not begin with SELECT; it
\* returns true exactly when both checks pass.
C1_ValidatorDecision ==
    valid # "unset" =>
        (valid = "True" <=>
            (~MentionsKeyword(sql_result.query) /\ BeginsWithSelect(sql_result.query)))

\* a SELECT naming the identifier update_count has been rejected
C1_Witness ==
    /\ valid = "False"
    /\ sql_result.query = <<"S","e","L","e","C","T"," ","a"," ","u","p","d","a","t","e","_","c","o","u","n","t">>
    /\ BeginsWithSelect(sql_result.query)

\* the model call failed: it raised, or its reply was no JSON object
\* with usable fields
ModelUnavailable == llm.kind = "raise"
FallbackTaken == llm \in FailingOutcomes

Generated == pc # "generate" /\ sql_result.kind # "none"

\* word occurs in the question, letter case ignored (word in lower case)
Says(word) ==
    \E p \in 1..Len(question) :
        /\ p + Len(word) - 1 <= Len(question)
        /\ \A k \in 1..Len(word) : LowerChar(question[p + k - 1]) = word[k]

\* C3 as stated: for "How many students are in the school?" with the model
\* unavailable, generate_sql returns the count-students query with
\* confidence 0.7 and the validator accepts it.
C3_AsStated ==
    (Generated /\ question = HowManyStudents /\ ModelUnavailable) =>
        /\ sql_result.kind = "return"
        /\ sql_result.query = CountStudentsQuery
        /\ sql_result.confidence = 7
        /\ valid # "False"

\* C3 amended: for that question with the model unavailable, generate_sql
\* returns the literal-error-string query with confidence 0.0 (the question
\* does not contain "count"), and the validator accepts that query.
C3_HowManyStudents ==
    (Generated /\ question = HowManyStudents /\ ModelUnavailable) =>
        /\ sql_result.kind = "return"
        /\ sql_result.query = ErrorQuery
        /\ sql_result.confidence = 0
        /\ valid # "False"

C3_Witness ==
    /\ question = HowManyStudents /\ ModelUnavailable
    /\ sql_result.query = ErrorQuery
    /\ valid = "True"

\* C4: on the fallback path the rules are tried in order on the lower-cased
\* question and the first match wins: "class" and "all" give the classes
\* query with confidence 0.7; otherwise "student" and "count" give the
\* count-students query; otherwise "student" and "all" give the
\* list-students query; otherwise the literal-error query with confidence 0.0.
C4_FallbackLadder ==
    (Generated /\ FallbackTaken) =>
        /\ sql_result.kind = "return"
        /\ IF Says(<<"c","l","a","s","s">>) /\ Says(<<"a","l","l">>)
           THEN sql_result.query = ClassesQuery /\ sql_result.confidence = 7
           ELSE IF Says(<<"s","t","u","d","e","n","t">>) /\ Says(<<"c","o","u","n","t">>)
           THEN sql_result.query = CountStudentsQuery
           ELSE IF Says(<<"s","t","u","d","e","n","t">>) /\ Says(<<"a","l","l">>)
           THEN sql_result.query = ListStudentsQuery
           ELSE sql_result.query = ErrorQuery /\ sql_result.confidence = 0

\* a question naming all four words got the classes query
C4_Witness ==
    /\ Generated /\ FallbackTaken
    /\ Says(<<"c","l","a","s","s">>) /\ Says(<<"a","l","l">>) /\ Says(<<"s","t","u","d","e","n","t">>) /\ Says(<<"c","o","u","n","t">>)
    /\ sql_result.query = ClassesQuery /\ sql_result.confidence = 7

\* C5 as stated: every question containing "student" and "count" that
\* reaches the fallback path gets the COUNT(*) query over students with
\* confidence 0.7.
C5_AsStated ==
    (Generated /\ FallbackTaken /\ Says(<<"s","t","u","d","e","n","t">>) /\ Says(<<"c","o","u","n","t">>)) =>
        sql_result.query = CountStudentsQuery /\ sql_result.confidence = 7

\* C5 amended: every question containing "student" and "count", but not
\* both "class" and "all", that reaches the fallback path gets the COUNT(*)
\* query over students with confidence 0.7.
C5_CountStudents ==
    (/\ Generated /\ FallbackTaken
     /\ Says(<<"s","t","u","d","e","n","t">>) /\ Says(<<"c","o","u","n","t">>)
     /\ ~(Says(<<"c","l","a","s","s">>) /\ Says(<<"a","l","l">>))) =>
        sql_result.query = CountStudentsQuery /\ sql_result.confidence = 7

\* a question with "student", "count" and "class" (no "all") got the count query
C5_Witness ==
    /\ Generated /\ FallbackTaken
    /\ Says(<<"s","t","u","d","e","n","t">>) /\ Says(<<"c","o","u","n","t">>) /\ Says(<<"c","l","a","s","s">>) /\ ~Says(<<"a","l","l">>)
    /\ sql_result.query = CountStudentsQuery /\ sql_result.confidence = 7

\* C6: generate_sql never fails outward: whatever the model call does
\* (raises, replies with no JSON, with JSON that is no object, with an
\* object whose fields are missing or wrongly typed), a SQLQuery value comes
\* back and no exception reaches the caller.
C6_NeverRaises ==
    Generated => (sql_result.kind = "return" /\ pc \in {"validate", "execute", "done"}
                  /\ retval # Returned(ErrorResponse, TRUE))

\* an object with a null query and a list as confidence was answered by a value
C6_Witness ==
    /\ llm = ModelReplies(<<JsonText(JObject(JNull, JAbsent, JList))>>)
    /\ sql_result.kind = "return"
    /\ pc = "validate"

\* C7: every SQLQuery generate_sql returns, on the model-driven path and on
\* every fallback path, has a confidence within [0.0, 1.0].
C7_ConfidenceInRange ==
    (Generated /\ sql_result.kind = "return") =>
        (0 <= sql_result.confidence /\ sql_result.confidence <= 10)

----------------------------------------------------------------------------
(* Properties of process_question (checked under Spec).                    *)

\* C2: within a request, a query reaches execute_query only after
\* validate_sql returned true for that same text (which then names no
\* denylisted keyword and begins with SELECT); once validate_sql has
\* returned false the request executes nothing.
C2_ExecuteOnlyValidated ==
    /\ executed # <<>> => (valid = "True" /\ executed = <<sql_result.query>>)
    /\ valid = "False" => (executed = <<>> /\ pc = "done")
    /\ pc = "execute" =>
          /\ valid = "True"
          /\ ~MentionsKeyword(sql_result.query)
          /\ BeginsWithSelect(sql_result.query)

\* the model proposed DELETE FROM students: rejected, answered by the
\* rephrase request, nothing executed
C2_Witness ==
    /\ sql_result.query = DeleteStudents
    /\ valid = "False"
    /\ pc = "done"
    /\ retval = Returned(RephraseUnsafe, TRUE)
    /\ executed = <<>>

----------------------------------------------------------------------------
(* Properties of ConversationMemory (checked under SpecMem).               *)

LogOf(sid) == IF sid \in DOMAIN conversations THEN conversations[sid] ELSE <<>>

\* the n most recent entries of a log, oldest first (all of them when the
\* log is shorter)
MostRecent(log, n) ==
    LET k == IF n < Len(log) THEN n ELSE Len(log)
    IN [i \in 1..k |-> log[Len(log) - k + i]]

\* C8: for every session id and every limit, 0 and limits beyond the log's
\* length included, get_conversation_history returns exactly the most recent
\* `limit` exchanges of the session's log, oldest first, and the empty
\* sequence for an unknown session id.
C8_MostRecentLimit ==
    call.op = "get_conversation_history" =>
        ret.history = MostRecent(LogOf(call.sid), call.limit)

QALines(exchange) ==
    Concat(<< <<"Q",":"," ">>, exchange.question, <<"\n">>, <<"A",":"," ">>, exchange.explanation, <<"\n","\n">> >>)

\* C9: get_context_for_question returns the empty string for a session
\* without exchanges (or an unknown one), and otherwise one Q:/A: pair per
\* exchange for the min(3, n) most recent exchanges, oldest first, built
\* from the stored question and explanation, whatever the current question.
C9_ContextText ==
    call.op = "get_context_for_question" =>
        LET recent == MostRecent(LogOf(call.sid), 3) IN
        ret.text = IF LogOf(call.sid) = <<>> THEN <<>>
                   ELSE ContextHeader
                            \o Concat([i \in 1..Len(recent) |-> QALines(recent[i])])

\* the context of a session holding four exchanges has been read
C9_Witness ==
    /\ call.op = "get_context_for_question"
    /\ Len(LogOf(call.sid)) = 4
    /\ LogOf(call.sid)[1].question # LogOf(call.sid)[2].question
    /\ ret.text # <<>>

\* C10: add_exchange appends exactly one exchange, carrying the given
\* question, SQL text and explanation, at the end of the addressed session's
\* log; for an unknown session id it creates the log, which then holds
\* exactly that exchange.
C10_AppendsOne ==
    [][call'.op = "add_exchange" =>
          LET sid == call'.sid
              before == LogOf(sid)
              after == conversations'[sid]
          IN /\ sid \in DOMAIN conversations'
             /\ Len(after) = Len(before) + 1
             /\ SubSeq(after, 1, Len(before)) = before
             /\ after[Len(after)].question = call'.question
             /\ after[Len(after)].sql_query = call'.sql_query
             /\ after[Len(after)].explanation = call'.explanation
             /\ (sid \notin DOMAIN conversations => Len(after) = 1)
             /\ \A other \in DOMAIN conversations \ {sid} :
                    conversations'[other] = conversations[other]]_vars

\* an exchange was added under an id no session was created for, after
\* another one under the same id
C10_Witness ==
    /\ call.op = "add_exchange"
    /\ current_session = NoSession
    /\ Len(LogOf(call.sid)) = 2
    /\ LogOf(call.sid)[2].question = call.question

----------------------------------------------------------------------------
(* Properties of generate_response (checked under SpecResp).               *)

Responded == pc # "respond"

\* the text has a line that reads exactly `line`
HasLine(text, line) ==
    Contains(<<"\n">> \o text \o <<"\n">>, <<"\n">> \o line \o <<"\n">>)

\* the rows of the result that have a line of their own in the text
RowsRendered(text) ==
    {i \in 1..(MaxRows + 1) : HasLine(text, <<"r","o","w"," ">> \o Decimal(i))}

\* C11: the results text that generate_response puts into its prompt is
\* exactly "No data found." for a table of zero rows, the total row count
\* followed by the first 10 rows and no others for a table of more than 10
\* rows, and every row for a table of 1 to 10 rows.
C11_ResultsFormatting ==
    (Responded /\ query_results.type = "DataFrame") =>
        LET n == query_results.rows
            text == prompt.results
        IN /\ n = 0 => text = <<"N","o"," ","d","a","t","a"," ","f","o","u","n","d",".">>
           /\ n > 10 =>
                /\ startswith(text, Concat(<< <<"F","o","u","n","d"," ">>, Decimal(n), <<" ","r","e","c","o","r","d","s",".">> >>))
                /\ RowsRendered(text) = 1..10
           /\ (n >= 1 /\ n <= 10) =>
                /\ RowsRendered(text) = 1..n
                /\ ~Contains(text, <<"F","o","u","n","d">>)

C11_Witness ==
    /\ Responded
    /\ query_results = DataFrame(11)
    /\ RowsRendered(prompt.results) = 1..10
    /\ Contains(prompt.results, <<"F","o","u","n","d"," ","1","1"," ","r","e","c","o","r","d","s",".">>)

\* C12: generate_response never raises: when the model invocation fails it
\* returns the template sentence holding the question and the formatted
\* results text unchanged, otherwise the model's answer; the except branch
\* of the caller is never entered from it.
C12_NeverFailsOutward ==
    Responded =>
        /\ pc = "store"
        /\ retval = NoReturn
        /\ reply.kind = "raise" =>
               response = Concat(<< <<"I"," ","f","o","u","n","d"," ","s","o","m","e"," ","r","e","s","u","l","t","s"," ","f","o","r"," ","y","o","u","r"," ","q","u","e","s","t","i","o","n"," ","'">>, question,
                                    <<"'","."," ","H","e","r","e","'","s"," ","w","h","a","t"," ","I"," ","d","i","s","c","o","v","e","r","e","d",":"," ">>, prompt.results >>)
        /\ reply.kind = "reply" => response = reply.content

C12_Witness ==
    /\ pc = "store"
    /\ reply.kind = "raise"
    /\ query_results = DataFrame(3)
    /\ Contains(response, question)
    /\ Contains(response, prompt.results)

----------------------------------------------------------------------------
(* Properties of the orchestration and the page (checked under Spec).      *)

IsPrefix(a, b) == Len(a) <= Len(b) /\ \A i \in 1..Len(a) : a[i] = b[i]

\* C13 as stated: the component calls of a request are made in the order
\* context read, generation, validation, execution, response, store.
C13_AsStated ==
    IsPrefix(steps, <<"context", "generate", "validate", "execute", "respond", "store">>)

\* C13: the component calls of a request are made one after another in the
\* order generation, validation, execution, context read, response, store;
\* a request that ends early has made an initial part of that sequence.
C13_ContextAfterExecution ==
    IsPrefix(steps, <<"generate", "validate", "execute", "context", "respond", "store">>)

C13_Witness ==
    /\ pc = "done"
    /\ steps = <<"generate", "validate", "execute", "context", "respond", "store">>
    /\ retval.returned /\ ~retval.error

ExecutionFails == pc = "execute" /\ pc' = "done"

\* the request's last entry in conversation_history is flagged as an error
FlaggedEntry(history, q) ==
    /\ Len(history) > 0
    /\ history[Len(history)].question = q
    /\ history[Len(history)].error

\* C14 as stated: when execute_query raises, process_question returns the
\* rephrase-style message and the exchange is appended to the session's
\* exchange log in Conversation Memory.
C14_AsStated ==
    [][ExecutionFails =>
         /\ retval' = Returned(ErrorResponse, TRUE)
         /\ Len(conversations'[session_id]) = Len(conversations[session_id]) + 1
         /\ conversations'[session_id][Len(conversations'[session_id])].question = question]_vars

\* C14: when execute_query raises, process_question returns the
\* rephrase-style message, appends one entry flagged as an error for the
\* question to the page's conversation_history, and leaves Conversation
\* Memory as it was.
C14_FailureRecordedInHistory ==
    [][ExecutionFails =>
         /\ retval' = Returned(ErrorResponse, TRUE)
         /\ Contains(retval'.response, <<"r","e","p","h","r","a","s","i","n","g">>)
         /\ Len(conversation_history') = Len(conversation_history) + 1
         /\ FlaggedEntry(conversation_history', question)
         /\ SubSeq(conversation_history', 1, Len(conversation_history)) = conversation_history
         /\ conversations' = conversations]_vars

C14_Witness ==
    /\ pc = "done"
    /\ valid = "True"
    /\ steps = <<"generate", "validate", "execute">>
    /\ retval = Returned(ErrorResponse, TRUE)
    /\ FlaggedEntry(conversation_history, question)
    /\ conversations[session_id] = <<>>
    /\ Len(conversation_history) = 2

\* C15: nothing the page shows contains the text of an exception raised
\* while a question was processed, whatever the display settings are.
C15_NoRawExceptionText ==
    \A i \in 1..Len(displayed) : ~Contains(displayed[i].text, DbError)

\* C16: once the validator has rejected the query of a question, the page
\* shows the rephrase request that process_question returned for it.
C16_RephraseDisplayed ==
    (pc = "done" /\ valid = "False") =>
        \E i \in 1..Len(displayed) :
            displayed[i].kind = "assistant" /\ displayed[i].text = RephraseUnsafe

----------------------------------------------------------------------------
(* Properties of the reply parsing (checked under SpecSql).                *)

\* what json.loads makes of the model's reply once the markers are removed
Loaded == json_loads(cleaned_result(llm.tokens))

\* the reply parses as a JSON object
ParsesAsObject == llm.kind = "reply" /\ Loaded.ok /\ Loaded.doc.t = "object"

\* the object carries a query and an explanation, both strings
CarriesTexts ==
    /\ ParsesAsObject
    /\ Loaded.doc.query.t = "string"
    /\ Loaded.doc.explanation.t = "string"

\* a confidence field that is present and that float() does not convert
Malformed(c) ==
    \/ c.t \in {"null", "list"}
    \/ c.t = "string" /\ ~float(c).ok

\* C17 as stated: a reply that parses as an object with its query and
\* explanation yields exactly these two texts with confidence 0.8 when the
\* confidence field is absent and also when it does not convert to a number.
C17_AsStated ==
    (Generated /\ CarriesTexts
       /\ (Loaded.doc.confidence.t = "absent" \/ Malformed(Loaded.doc.confidence))) =>
        sql_result = Return(Loaded.doc.query.s, Loaded.doc.explanation.s, 8)

\* C17: a reply that parses as an object with its query and explanation
\* yields these two texts with confidence 0.8 when the confidence field is
\* absent and with the converted confidence when it converts; when the
\* field is present and does not convert, the reply is dropped and the
\* result is the fallback ladder's query for the question.
C17_AbsentDefaultsMalformedFallsBack ==
    (Generated /\ CarriesTexts) =>
        LET c == Loaded.doc.confidence IN
        /\ c.t = "absent" =>
               sql_result = Return(Loaded.doc.query.s, Loaded.doc.explanation.s, 8)
        /\ (c.t # "absent" /\ ~Malformed(c)) =>
               sql_result = Return(Loaded.doc.query.s, Loaded.doc.explanation.s, float(c).n)
        /\ Malformed(c) => sql_result = create_fallback_query(question, <<>>)

C17_Witness ==
    /\ Generated
    /\ CarriesTexts
    /\ Loaded.doc.confidence = JString(<<"h","i","g","h">>)
    /\ Loaded.doc.query.s = CountStudentsQuery
    /\ sql_result.query = ErrorQuery
    /\ sql_result.confidence = 0

\* C18: whenever the model call fails, the reply does not parse, or it
\* does not parse to an object that carries a query text, the result is the
\* fallback ladder's query for the question.
C18_StrictParseThenFallback ==
    (Generated /\ (llm.kind = "raise" \/ ~ParsesAsObject \/ Loaded.doc.query.t # "string")) =>
        /\ sql_result.kind = "return"
        /\ sql_result.query = create_fallback_query(question, llm.error).query
        /\ sql_result.confidence = create_fallback_query(question, llm.error).confidence

----------------------------------------------------------------------------
(* Isolation of the session logs (checked under SpecMem) and agreement of  *)
(* the two stores of the page (checked under Spec).                        *)

\* C19: every operation of the memory leaves each session in place and
\* each log an extension of what it was; logs other than the addressed one
\* are unchanged, the two read operations change nothing, and a created
\* session starts empty.
C19_AppendOnlyIsolated ==
    [][/\ DOMAIN conversations \subseteq DOMAIN conversations'
       /\ \A sid \in DOMAIN conversations :
              /\ IsPrefix(conversations[sid], conversations'[sid])
              /\ Len(conversations'[sid]) <= Len(conversations[sid]) + 1
              /\ sid # call'.sid => conversations'[sid] = conversations[sid]
       /\ \A sid \in DOMAIN conversations' \ DOMAIN conversations :
              /\ call'.op \in {"create_session", "add_exchange"}
              /\ call'.op = "create_session" => conversations'[sid] = <<>> /\ ret'.session = sid
              /\ call'.op = "add_exchange" => sid = call'.sid
       /\ call'.op \in {"get_conversation_history", "get_context_for_question"} =>
              conversations' = conversations]_vars

C19_Witness ==
    /\ call.op = "get_conversation_history"
    /\ call.limit = 1
    /\ DOMAIN conversations = {"s1", "s2"}
    /\ Len(conversations["s1"]) = 2
    /\ Len(conversations["s2"]) = 2
    /\ conversations["s1"][1].question # conversations["s2"][1].question
    /\ current_session = "s2"

AtRest == pc \in {"idle", "done"}

\* the entries of the page's history that are not flagged as errors
Answered(history) == {i \in 1..Len(history) : ~history[i].error}

\* C20: between requests the exchange log of the page's session holds as
\* many exchanges as the page's history has entries not flagged as errors;
\* a rejected query changes neither store, a request that raises appends
\* one flagged entry to the history and leaves the memory alone, and Clear
\* History empties the history and moves the page to a new, empty session.
C20_StoresAgree ==
    [][/\ AtRest' =>
              Len(conversations'[session_id']) = Cardinality(Answered(conversation_history'))
       /\ (pc = "validate" /\ pc' = "done") =>
              conversations' = conversations /\ conversation_history' = conversation_history
       /\ (pc \notin {"idle", "done"} /\ retval' = Returned(ErrorResponse, TRUE)) =>
              /\ conversations' = conversations
              /\ Len(conversation_history') = Len(conversation_history) + 1
              /\ FlaggedEntry(conversation_history', question)
       /\ session_id' # session_id =>
              /\ conversation_history' = <<>>
              /\ session_id' \notin DOMAIN conversations
              /\ conversations'[session_id'] = <<>>
              /\ \A sid \in DOMAIN conversations : conversations'[sid] = conversations[sid]]_vars

C20_Witness ==
    /\ pc = "done"
    /\ Cardinality(DOMAIN conversations) = 2
    /\ Len(conversation_history) = 1
    /\ conversation_history[1].error
    /\ conversations[session_id] = <<>>
    /\ \E sid \in DOMAIN conversations : Len(conversations[sid]) = 1

----------------------------------------------------------------------------
(* The generator's own queries against the validator (checked under        *)
(* SpecSql).                                                               *)

\* the query of the result is not the model's: the model call failed, the
\* reply is no JSON object, it has no query text, or building the result
\* from it failed on the explanation or the confidence
Degraded ==
    \/ llm.kind = "raise"
    \/ ~ParsesAsObject
    \/ Loaded.doc.query.t # "string"
    \/ Loaded.doc.explanation.t \notin {"absent", "string"}
    \/ Malformed(Loaded.doc.confidence)

Validated == valid # "unset"

\* the query texts written in the generator itself
OwnQueries == {ClassesQuery, CountStudentsQuery, ListStudentsQuery, ErrorQuery, DefaultQuery}

\* C21: a result whose query does not come from the model carries one of
\* the generator's five own query texts, validate_sql accepts it, and the
\* request goes on to execution.
C21_OwnQueriesAccepted ==
    (Validated /\ Degraded) =>
        /\ sql_result.query \in OwnQueries
        /\ valid = "True"
        /\ pc = "execute"

\* the default query, used for a reply without a query field, was accepted
C21_Witness ==
    /\ Validated
    /\ ParsesAsObject
    /\ Loaded.doc.query.t = "absent"
    /\ sql_result.query = DefaultQuery
    /\ valid = "True"
    /\ pc = "execute"

====
